---- MODULE Spec2Model ----
(***************************************************************************)
(* The chat client of ai-excel-interviewer: App.tsx (landing page /        *)
(* interview page switch) and InterviewPage.tsx (sendMessageToAgent, its   *)
(* retry chain, pollForResult, handleSubmit and the mount effect).         *)
(*                                                                         *)
(* Texts are sequences of tokens (words, single blanks " ", single digits),*)
(* so that trim(), the /Question (\d+)/i match and parseInt are computed.  *)
(* Timestamps (getTimestamp) and message ids (generateUUID) are left out:  *)
(* nothing reads them.  The falsy values null and '' are both written      *)
(* NoToken / an empty sequence, as every test in the code is a truthiness  *)
(* test.                                                                   *)
(***************************************************************************)
EXTENDS Integers, Sequences, FiniteSets, TLC

\* ---------------------------------------------------------------- bounds
MaxTurns == 2
MaxReloads == 1
MaxPending == 1
MaxEvents == 3

\* ------------------------------------------------------ program constants
RETRIES == 3
MAX_POLLS == 360
STEP_WEIGHT == 20

NoToken == ""
Tokens == {"ctxA", "ctxB"}

START_TEXT == <<"Start", " ", "my", " ", "interview">>
PLACEHOLDER == <<"...">>
NO_RESPONSE_TEXT == <<"No response text">>

terminalStates == {"completed", "failed", "canceled", "rejected"}
pendingStates == {"submitted", "working"}

\* what the user may type into the input box
InputChoices == {<<" ">>, <<" ", "hi", " ">>, START_TEXT}

\* texts the agent may put into a task's status message
ReplyTexts ==
  { <<"Question", " ", "1", ":", " ", "sum">>,
    <<"Good", ".", " ", "question", " ", "3", " ", "Question", " ", "1">>,
    <<"Thanks">> }

\* further texts, met by a single watched turn only
MoreReplyTexts ==
  { <<"QUESTION", " ", "1", "2">>,
    <<"Question", " ", "0">>,
    <<"Question", " ", "5", " ", "of", " ", "5">>,
    <<"Question", " ", "3", ":", " ", "Question", " ", "4">>,
    <<"Questions", " ", "4">>,
    <<"Question", "4">> }

\* ------------------------------------------------------------ pure helpers
RECURSIVE TrimStart(_)
TrimStart(s) ==
  IF s # <<>> /\ Head(s) = " " THEN TrimStart(Tail(s)) ELSE s

RECURSIVE TrimEnd(_)
TrimEnd(s) ==
  IF s # <<>> /\ s[Len(s)] = " " THEN TrimEnd(SubSeq(s, 1, Len(s) - 1)) ELSE s

Trim(s) == TrimEnd(TrimStart(s))

Digits == {"0", "1", "2", "3", "4", "5", "6", "7", "8", "9"}

DigitValue(d) ==
  CASE d = "0" -> 0 [] d = "1" -> 1 [] d = "2" -> 2 [] d = "3" -> 3
    [] d = "4" -> 4 [] d = "5" -> 5 [] d = "6" -> 6 [] d = "7" -> 7
    [] d = "8" -> 8 [] d = "9" -> 9

IsQuestionWord(w) == w \in {"Question", "question", "QUESTION"}

\* positions where /Question (\d+)/i matches
MatchAt(text, p) ==
  /\ p + 2 <= Len(text)
  /\ IsQuestionWord(text[p])
  /\ text[p + 1] = " "
  /\ text[p + 2] \in Digits

MatchPositions(text) == {p \in 1..Len(text) : MatchAt(text, p)}

\* the match the furthest to the right
LastMatch(text) ==
  CHOOSE p \in MatchPositions(text) : \A q \in MatchPositions(text) : p >= q

FirstMatch(text) ==
  CHOOSE p \in MatchPositions(text) : \A q \in MatchPositions(text) : p <= q

RECURSIVE DigitRun(_, _)
DigitRun(text, p) ==
  IF p <= Len(text) /\ text[p] \in Digits
    THEN <<text[p]>> \o DigitRun(text, p + 1)
    ELSE <<>>

RECURSIVE ParseInt(_)
ParseInt(ds) ==
  IF ds = <<>> THEN 0
  ELSE 10 * ParseInt(SubSeq(ds, 1, Len(ds) - 1)) + DigitValue(ds[Len(ds)])

HasQuestion(text) == MatchPositions(text) # {}
QuestionNumber(text) == ParseInt(DigitRun(text, FirstMatch(text) + 2))

ErrorText(cause) == <<"Error: ">> \o cause

\* error messages thrown inside sendMessageToAgent / pollForResult
E_FETCH == <<"Failed to fetch">>
E_HTTP == <<"HTTP error! Status">>
E_RPC == <<"JSON-RPC error">>
E_NOID == <<"No task ID returned from server">>
E_TIMEOUT == <<"Polling timed out.">>
E_TYPE == <<"Cannot read properties of undefined">>

\* ------------------------------------------ Frame Decoder (stream transport)
\* The response text is a sequence of symbols: the two halves of the event
\* prefix, the kind and the content of an event, and the line feed NL.  A frame
\* is `data: ` followed by the event; frames are separated by a blank line,
\* i.e. by two NL.
NL == "\n"
EVENT_PREFIX == <<"data", ": ">>
DELIMITER == <<NL, NL>>

PartialEvents ==
  {[kind |-> "partial", content |-> c] : c \in {"a", "b"}}
TerminalEvents ==
  {[kind |-> "final", content |-> "z"], [kind |-> "error", content |-> "e"]}
InboundEvents == PartialEvents \cup TerminalEvents

\* a frame without the event prefix (a comment line of the producer)
KEEP_ALIVE == [kind |-> "comment", content |-> "ping"]

\* the frame of an event, as the producer writes it
EncodeFrame(ev) ==
  IF ev \in InboundEvents
    THEN EVENT_PREFIX \o <<ev.kind, ev.content>>
    ELSE <<ev.content>>

RECURSIVE EncodeStream(_)
EncodeStream(evs) ==
  IF evs = <<>> THEN <<>>
  ELSE EncodeFrame(Head(evs)) \o DELIMITER \o EncodeStream(Tail(evs))

\* the buffer split on the delimiter: the complete frames, and what follows
\* the last delimiter
RECURSIVE SplitBuffer(_, _, _)
SplitBuffer(buf, cur, frames) ==
  IF buf = <<>> THEN [frames |-> frames, rest |-> cur]
  ELSE IF Len(buf) >= 2 /\ SubSeq(buf, 1, 2) = DELIMITER
    THEN SplitBuffer(SubSeq(buf, 3, Len(buf)), <<>>, Append(frames, cur))
    ELSE SplitBuffer(Tail(buf), Append(cur, Head(buf)), frames)

\* the incomplete frame is thrown away with the chunk
RemainderDropped(buf) == <<>>

\* the incomplete remainder kept for the next chunk
Remainder(buf) == SplitBuffer(buf, <<>>, <<>>).rest

CompleteFrames(buf) == SplitBuffer(buf, <<>>, <<>>).frames

\* a frame that carries the event prefix and an event is parsed; any other
\* frame is ignored
IsEventFrame(frame) ==
  /\ Len(frame) = 4
  /\ SubSeq(frame, 1, 2) = EVENT_PREFIX
  /\ [kind |-> frame[3], content |-> frame[4]] \in InboundEvents

ParseFrame(frame) == [kind |-> frame[3], content |-> frame[4]]

IsTerminalEvent(ev) == ev.kind \in {"final", "error"}

\* the events of the frames, in order, up to the first terminal event
RECURSIVE PushEvents(_, _)
PushEvents(events, frames) ==
  IF frames = <<>> \/ (events # <<>> /\ IsTerminalEvent(events[Len(events)]))
    THEN events
  ELSE IF IsEventFrame(Head(frames))
    THEN PushEvents(Append(events, ParseFrame(Head(frames))), Tail(frames))
    ELSE PushEvents(events, Tail(frames))

SawTerminal(events) ==
  events # <<>> /\ IsTerminalEvent(events[Len(events)])

\* the decoder: its rolling buffer, the events pushed so far, the read loop left
NewDecoder == [buffer |-> <<>>, events |-> <<>>, done |-> FALSE]

\* one chunk is read: appended to the buffer, the complete frames are parsed
\* and pushed, the remainder is kept
Feed(d, chunk) ==
  LET buf == d.buffer \o chunk
      evs == PushEvents(d.events, CompleteFrames(buf))
  IN [buffer |-> Remainder(buf), events |-> evs, done |-> SawTerminal(evs)]

NoStream == [sent |-> <<>>, rest |-> <<>>, chunks |-> 0, decoder |-> NewDecoder]

\* ------------------------------------------------------------------ state
VARIABLES
  isInterviewStarted,  \* App.tsx: which page is shown
  instance,            \* number of InterviewPage instances mounted so far
  messages,            \* InterviewPage state, as of the latest render
  userInput,
  isLoading,
  progress,
  questionCount,
  contextId,
  localStorage,        \* the slot 'excel_interviewer_context_id'
  turn,                \* the calls of sendMessageToAgent, one chain per turn
  nTurns,              \* turns started so far
  reloads,             \* page reloads so far
  owner,               \* history: for each entry of messages, the turn that wrote it
  stream               \* the Frame Decoder of the stream transport and its input

vars ==
  <<isInterviewStarted, instance, messages, userInput, isLoading, progress,
    questionCount, contextId, localStorage, turn, nTurns, reloads, owner,
    stream>>

TurnIds == 1..MaxTurns

NoRecord == [state |-> "none", shape |-> "none", text |-> <<>>]

\* A turn: the chain of sendMessageToAgent calls started by one mount effect or
\* one handleSubmit.  pc is the await the innermost call is suspended at.
\* Fields from attempts on are history, read by the properties only.
NoTurn ==
  [ pc |-> "none",        \* none | submit | poll | delay | done
    inst |-> 0,           \* the InterviewPage instance whose closure runs it
    text |-> <<>>,        \* parameter text
    retries |-> 0,        \* parameter retries of the innermost call
    ctx |-> NoToken,      \* contextId as captured by the closure
    taskId |-> 0,         \* taskId of the innermost call (0: none)
    i |-> 0,              \* pollForResult's loop variable
    initialCtx |-> NoToken, \* initialTask.result?.context_id, until polling starts
    error |-> <<>>,       \* the error caught by the innermost call
    attempts |-> 0,       \* submit requests issued
    delays |-> 0,         \* inter-attempt delays started
    okAt |-> 0,           \* the attempt whose try block ran to its end
    delivered |-> FALSE,  \* some message.send of the turn returned a task id
    result |-> "none",    \* none | reply | error: what closed the turn
    finalText |-> <<>>,   \* the text of the terminal write
    errWrites |-> 0,      \* error texts written
    reqCtx |-> NoToken,   \* context_id of the latest submit request
    polls |-> 0,          \* task.get requests issued by the latest pollForResult
    polled |-> 0,         \* task id of the latest task.get request
    firstTerm |-> 0,      \* the poll that was first answered with a terminal state
    timeouts |-> 0,       \* calls of pollForResult that timed out
    sawFail |-> FALSE,    \* some poll of the latest pollForResult failed
    pollOut |-> "none",   \* none | running | returned | timeout
    pollRet |-> NoRecord  \* the record pollForResult returned
  ]

Live(t) == isInterviewStarted /\ turn[t].inst = instance
Open(t) == turn[t].pc \in {"submit", "poll", "delay"}

\* the server's task id for attempt a of turn t
FreshTaskId(t, a) == (t - 1) * (RETRIES + 1) + a

UserMessage(txt) == [sender |-> "user", text |-> txt]
AiMessage(txt) == [sender |-> "ai", text |-> txt]

\* the placeholder is appended before the user message
AppendTurnUserLast(msgs, txt) ==
  IF txt # START_TEXT
    THEN Append(Append(msgs, AiMessage(PLACEHOLDER)), UserMessage(txt))
    ELSE Append(msgs, AiMessage(PLACEHOLDER))

\* lines 42-45
AppendTurn(msgs, txt) ==
  Append(IF txt # START_TEXT THEN Append(msgs, UserMessage(txt)) ELSE msgs,
         AiMessage(PLACEHOLDER))

AppendOwner(own, txt, t) ==
  Append(IF txt # START_TEXT THEN Append(own, t) ELSE own, t)

\* prev.slice(0, -2) in place of prev.slice(0, -1)
ReplaceLastTwo(s, m) ==
  (IF Len(s) < 2 THEN <<>> ELSE SubSeq(s, 1, Len(s) - 2)) \o <<m>>

\* prev.slice(0, -1) followed by the new entry (lines 103-106, 115-118)
ReplaceLast(s, m) ==
  (IF Len(s) = 0 THEN <<>> ELSE SubSeq(s, 1, Len(s) - 1)) \o <<m>>

\* the request is built without the token
RequestContextDropped(ctx) == NoToken

\* line 58
RequestContext(ctx) == ctx

\* line 88
MayStoreContext(ctx, received) == ctx = NoToken /\ received # NoToken

\* a retry budget off by one more
ShouldRetryOnceMore(retries) == retries >= 0

\* line 109
ShouldRetry(retries) == retries > 0

\* the instanceof test of line 114 taken the other way
ErrorMessageUnknown(error) == <<"Unknown error">>

\* line 114
ErrorMessageOf(error) == error

\* line 94
ReplyTextOf(rec) ==
  IF rec.shape = "text" /\ rec.text # <<>> THEN rec.text ELSE NO_RESPONSE_TEXT

\* the question count never goes down
NewCountMax(txt, count) ==
  IF HasQuestion(txt) /\ QuestionNumber(txt) > count
    THEN QuestionNumber(txt) ELSE count

\* lines 96-99: the question count after a reply text
NewCount(txt, count) ==
  IF HasQuestion(txt) THEN QuestionNumber(txt) ELSE count

\* a reply without a marker resets the progress
NewProgressOrZero(txt, percent) ==
  IF HasQuestion(txt) THEN QuestionNumber(txt) * STEP_WEIGHT ELSE 0

\* lines 96-100: the progress after a reply text
NewProgress(txt, percent) ==
  IF HasQuestion(txt) THEN QuestionNumber(txt) * STEP_WEIGHT ELSE percent

\* only a completed task ends the polling
IsTerminalCompletedOnly(state) == state = "completed"

\* line 157
IsTerminal(state) == state \in terminalStates

\* a loop bound off by one
LoopContinuesInclusive(i) == i <= MAX_POLLS

\* line 126
LoopContinues(i) == i < MAX_POLLS

PageInit ==
  /\ isInterviewStarted = FALSE
  /\ instance = 0
  /\ messages = <<>>
  /\ userInput = <<>>
  /\ isLoading = FALSE
  /\ progress = 0
  /\ questionCount = 0
  /\ contextId = NoToken
  /\ localStorage = NoToken
  /\ turn = [t \in TurnIds |-> NoTurn]
  /\ nTurns = 0
  /\ reloads = 0
  /\ owner = <<>>

Init ==
  /\ PageInit
  /\ stream = NoStream

\* ------------------------------------------------------------ environment
\* what the agent may answer to message.send
SubmitFailures == {E_FETCH, E_HTTP, E_RPC, E_NOID}
ReceivedContexts == {NoToken} \cup Tokens

\* what the agent may answer to task.get: a failing poll (fetch rejected, HTTP
\* status not ok, an error envelope, no result), or a result with a state
FailingPolls == {"fetch", "http", "rpc", "noresult"}

\* shape: text (status.message.parts[0].root.text is there), nomessage (no
\* status.message), noparts (a status.message without parts)
TerminalRecords ==
  {[state |-> "completed", shape |-> "text", text |-> r] :
      r \in ReplyTexts \cup MoreReplyTexts}
    \cup {[state |-> s, shape |-> "nomessage", text |-> <<>>] : s \in terminalStates}
    \cup {[state |-> "completed", shape |-> "text", text |-> <<>>],
          [state |-> "failed", shape |-> "text",
           text |-> <<"Question", " ", "1", ":", " ", "sum">>],
          [state |-> "completed", shape |-> "noparts", text |-> <<>>],
          [state |-> "rejected", shape |-> "noparts", text |-> <<>>]}

PendingRecords ==
  {[state |-> s, shape |-> "nomessage", text |-> <<>>] : s \in pendingStates}

\* The agent as one watched turn meets it, and as a whole session meets it
\* (fewer kinds of answers, so that several turns can be followed).
WholeEnv ==
  [ failures |-> SubmitFailures, contexts |-> ReceivedContexts,
    failingPolls |-> FailingPolls, pending |-> PendingRecords,
    records |-> TerminalRecords, patient |-> TRUE ]

SessionRecords ==
  {[state |-> "completed", shape |-> "text", text |-> r] : r \in ReplyTexts}

SessionEnv ==
  [ failures |-> {E_FETCH, E_NOID}, contexts |-> ReceivedContexts,
    failingPolls |-> {"http"},
    pending |-> {[state |-> "working", shape |-> "nomessage", text |-> <<>>]},
    records |-> SessionRecords, patient |-> FALSE ]

\* The agent answers a task within MaxPending polls, except in a session whose
\* only turn so far is the first one: there a task may stay pending for ever.
CanStayPending(t, env) ==
  \/ env.patient
  \/ turn[t].i < MaxPending
  \/ (nTurns = 1 /\ reloads = 0 /\ instance = 1)

\* The user does not act while a task has been pending for longer.
UserWaits == \E t \in TurnIds : turn[t].polls > MaxPending

\* ---------------------------------------------------------------- actions
\* sendMessageToAgent up to its first await (lines 41-70), as a fresh turn
BeginTurn(t, txt, ctx, inst) ==
  /\ t = nTurns + 1
  /\ t <= MaxTurns
  /\ nTurns' = t
  /\ isLoading' = TRUE
  /\ messages' = AppendTurn(messages, txt)
  /\ owner' = AppendOwner(owner, txt, t)
  /\ turn' = [turn EXCEPT ![t] =
       [NoTurn EXCEPT !.pc = "submit", !.inst = inst, !.text = txt,
                      !.retries = RETRIES, !.ctx = ctx, !.attempts = 1,
                      !.reqCtx = RequestContext(ctx)]]

\* App.tsx handleStartInterview: the interview page is mounted with fresh state
HandleStartInterview ==
  /\ ~isInterviewStarted
  /\ isInterviewStarted' = TRUE
  /\ instance' = instance + 1
  /\ userInput' = <<>>
  /\ progress' = 0
  /\ questionCount' = 0

\* the mount effect (lines 28-34); the closure it runs in is the first render's,
\* where contextId is still null
MountEffect(t) ==
  /\ contextId' = localStorage
  /\ messages = <<>>
  /\ BeginTurn(t, START_TEXT, NoToken, instance')

StartInterview ==
  /\ ~UserWaits
  /\ HandleStartInterview
  /\ MountEffect(nTurns + 1)
  /\ UNCHANGED <<localStorage, reloads, stream>>

\* App.tsx handleEndInterview: the page is unmounted and its state is dropped;
\* the calls in flight go on
HandleEndInterview ==
  /\ isInterviewStarted
  /\ ~UserWaits
  /\ isInterviewStarted' = FALSE
  /\ messages' = <<>>
  /\ owner' = <<>>
  /\ userInput' = <<>>
  /\ isLoading' = FALSE
  /\ progress' = 0
  /\ questionCount' = 0
  /\ contextId' = NoToken
  /\ UNCHANGED <<instance, localStorage, turn, nTurns, reloads, stream>>

\* the browser reloads the page: only localStorage survives
Reload ==
  /\ reloads < MaxReloads
  /\ nTurns > 0
  /\ ~UserWaits
  /\ reloads' = reloads + 1
  /\ isInterviewStarted' = FALSE
  /\ messages' = <<>>
  /\ owner' = <<>>
  /\ userInput' = <<>>
  /\ isLoading' = FALSE
  /\ progress' = 0
  /\ questionCount' = 0
  /\ contextId' = NoToken
  /\ turn' = [t \in TurnIds |-> NoTurn]
  /\ UNCHANGED <<instance, localStorage, nTurns, stream>>

\* onChange of the input box (line 217), which is disabled while isLoading
ChangeInput ==
  /\ isInterviewStarted
  /\ ~isLoading
  /\ \E v \in InputChoices : userInput' = v
  /\ userInput' # userInput
  /\ UNCHANGED <<isInterviewStarted, instance, messages, isLoading, progress,
                 questionCount, contextId, localStorage, turn, nTurns, reloads,
                 owner, stream>>

\* line 170
SubmitAccepted(input, loading) == Trim(input) # <<>> /\ ~loading

\* handleSubmit (lines 168-174)
HandleSubmit ==
  /\ isInterviewStarted
  /\ IF SubmitAccepted(userInput, isLoading)
       THEN /\ BeginTurn(nTurns + 1, Trim(userInput), contextId, instance)
            /\ userInput' = <<>>
            /\ UNCHANGED <<isInterviewStarted, instance, progress, questionCount,
                           contextId, localStorage, reloads, stream>>
       ELSE UNCHANGED vars

\* The promise of the outermost call settles: the chain's parameters and
\* locals are gone, its history stays.
Closed(tr) ==
  [tr EXCEPT !.pc = "done", !.text = <<>>, !.retries = 0, !.ctx = NoToken,
             !.reqCtx = NoToken, !.taskId = 0, !.i = 0, !.polled = 0]

\* the guard is not released at the end of the call
FinallySkipped(t) == UNCHANGED isLoading

\* the finally block (lines 119-121) of the call that closes the turn
Finally(t) == isLoading' = IF Live(t) THEN FALSE ELSE isLoading

\* the last catch block throws the error on: the promise rejects and nothing
\* is written
CatchRethrows(t, tr, cause) ==
  IF ShouldRetry(tr.retries)
    THEN /\ turn' = [turn EXCEPT ![t] =
              [tr EXCEPT !.pc = "delay", !.error = cause,
                         !.delays = tr.delays + 1]]
         /\ UNCHANGED <<messages, owner, isLoading>>
    ELSE /\ turn' = [turn EXCEPT ![t] = Closed([tr EXCEPT !.error = cause])]
         /\ UNCHANGED <<messages, owner>>
         /\ Finally(t)

\* the catch block (lines 107-118) and, when it does not retry, the finally
\* block (119-121); tr is the turn as the try block left it
Catch(t, tr, cause) ==
  IF ShouldRetry(tr.retries)
    THEN /\ turn' = [turn EXCEPT ![t] =
              [tr EXCEPT !.pc = "delay", !.error = cause,
                         !.delays = tr.delays + 1]]
         /\ UNCHANGED <<messages, owner, isLoading>>
    ELSE LET txt == ErrorText(ErrorMessageOf(cause)) IN
         /\ turn' = [turn EXCEPT ![t] =
              Closed([tr EXCEPT !.error = cause, !.result = "error",
                                !.finalText = txt,
                                !.errWrites = tr.errWrites + 1])]
         /\ messages' = IF Live(t) THEN ReplaceLast(messages, AiMessage(txt))
                                   ELSE messages
         /\ owner' = IF Live(t) THEN ReplaceLast(owner, t) ELSE owner
         /\ Finally(t)

\* the answer to message.send arrives (lines 72-93, up to pollForResult's
\* first await)
SubmitResponse(t, env) ==
  /\ turn[t].pc = "submit"
  /\ \/ \E cause \in env.failures :
          /\ Catch(t, turn[t], cause)
          /\ UNCHANGED <<contextId, localStorage>>
     \/ \E received \in env.contexts :
          LET store == MayStoreContext(turn[t].ctx, received) IN
          /\ contextId' = IF store /\ Live(t) THEN received ELSE contextId
          /\ localStorage' = IF store THEN received ELSE localStorage
          /\ turn' = [turn EXCEPT ![t] =
               [@ EXCEPT !.pc = "poll",
                         !.taskId = FreshTaskId(t, turn[t].attempts),
                         !.initialCtx = received, !.delivered = TRUE,
                         !.i = 0, !.polls = 0, !.polled = 0, !.firstTerm = 0,
                         !.sawFail = FALSE, !.pollOut = "running",
                         !.pollRet = NoRecord]]
          /\ UNCHANGED <<messages, owner, isLoading>>
  /\ UNCHANGED <<isInterviewStarted, instance, userInput, progress, questionCount,
                 nTurns, reloads, stream>>

\* isLoading once the catch block's recursive call has returned its promise:
\* `return sendMessageToAgent(...)` does not await it, so the finally block of
\* the outer call (line 120) runs right after line 41 of the inner one
LoadingAfterRetry == FALSE

\* the 1-second delay of the catch block is over (lines 111-112): the recursive
\* call runs up to its first await
RetryTimer(t) ==
  /\ turn[t].pc = "delay"
  /\ turn' = [turn EXCEPT ![t] =
       [@ EXCEPT !.pc = "submit", !.retries = turn[t].retries - 1,
                 !.taskId = 0, !.i = 0,
                 !.attempts = turn[t].attempts + 1,
                 !.error = <<>>,
                 !.reqCtx = RequestContext(turn[t].ctx),
                 !.polls = 0, !.polled = 0, !.firstTerm = 0,
                 !.sawFail = FALSE, !.pollOut = "none",
                 !.pollRet = NoRecord]]
  /\ messages' = IF Live(t) THEN AppendTurn(messages, turn[t].text) ELSE messages
  /\ owner' = IF Live(t) THEN AppendOwner(owner, turn[t].text, t) ELSE owner
  /\ isLoading' = IF Live(t) THEN LoadingAfterRetry ELSE isLoading
  /\ UNCHANGED <<isInterviewStarted, instance, userInput, progress, questionCount,
                 contextId, localStorage, nTurns, reloads, stream>>

\* the try block throws after its last statement, so the catch block runs
\* although the reply has been written
ResolveThenThrow(t, tr, rec) ==
  /\ Catch(t, [tr EXCEPT !.okAt = tr.attempts], E_TYPE)
  /\ UNCHANGED <<questionCount, progress>>

\* lines 94-106 and the finally block: pollForResult returned rec
Resolve(t, tr, rec) ==
  IF rec.shape = "noparts"
    THEN /\ Catch(t, tr, E_TYPE)
         /\ UNCHANGED <<questionCount, progress>>
    ELSE LET txt == ReplyTextOf(rec) IN
         /\ questionCount' = IF Live(t) THEN NewCount(txt, questionCount)
                                        ELSE questionCount
         /\ progress' = IF Live(t) THEN NewProgress(txt, progress) ELSE progress
         /\ messages' = IF Live(t) THEN ReplaceLast(messages, AiMessage(txt))
                                   ELSE messages
         /\ owner' = IF Live(t) THEN ReplaceLast(owner, t) ELSE owner
         /\ Finally(t)
         /\ turn' = [turn EXCEPT ![t] =
              Closed([tr EXCEPT !.result = "reply", !.finalText = txt,
                                !.okAt = tr.attempts])]

\* the end of an iteration of pollForResult's loop that did not return: the
\* next iteration's timer is started (lines 126-127), or the loop is left and
\* line 165 throws into the caller's catch block
NextIteration(t, tr) ==
  IF LoopContinues(tr.i)
    THEN /\ turn' = [turn EXCEPT ![t] = tr]
         /\ UNCHANGED <<messages, owner, isLoading, questionCount, progress>>
    ELSE /\ Catch(t, [tr EXCEPT !.pollOut = "timeout",
                                !.timeouts = tr.timeouts + 1], E_TIMEOUT)
         /\ UNCHANGED <<questionCount, progress>>

\* the error of a failing poll leaves pollForResult
PollCatchRethrows(t, tr) ==
  /\ Catch(t, [tr EXCEPT !.sawFail = TRUE], E_FETCH)
  /\ UNCHANGED <<questionCount, progress>>

\* a poll failed (fetch rejected, status not ok, error envelope: the catch block
\* of lines 160-162; no result: the continue of line 153)
PollCatch(t, tr) == NextIteration(t, [tr EXCEPT !.sawFail = TRUE])

\* every poll asks for the task of the turn's first attempt
PollParamsFirstAttempt(t, tr) == FreshTaskId(t, 1)

\* the id in the params of task.get (line 136): pollForResult's parameter
PollParams(t, tr) == tr.taskId

\* one iteration of pollForResult's loop (lines 126-163): the 1-second timer,
\* the task.get request and its answer; the loop's exit (line 165) and the
\* caller's continuation run in the same step
PollTick(t, env) ==
  /\ turn[t].pc = "poll"
  /\ LoopContinues(turn[t].i)
  /\ LET asked == [turn[t] EXCEPT !.polls = @ + 1,
                                  !.polled = PollParams(t, turn[t]),
                                  !.i = @ + 1, !.initialCtx = NoToken]
     IN
     \/ /\ CanStayPending(t, env)
        /\ \E f \in env.failingPolls : PollCatch(t, asked)
     \/ /\ CanStayPending(t, env)
        /\ \E rec \in env.pending : NextIteration(t, asked)
     \/ \E rec \in env.records :
          LET seen == [asked EXCEPT
                         !.firstTerm = IF @ = 0 THEN asked.polls ELSE @] IN
          IF IsTerminal(rec.state)
            THEN Resolve(t, [seen EXCEPT !.pollOut = "returned", !.pollRet = rec],
                         rec)
            ELSE NextIteration(t, seen)
  /\ UNCHANGED <<isInterviewStarted, instance, userInput, contextId, localStorage,
                 nTurns, reloads, stream>>

Next ==
  \/ StartInterview
  \/ HandleEndInterview
  \/ Reload
  \/ (~UserWaits /\ ChangeInput)
  \/ (~UserWaits /\ HandleSubmit)
  \/ \E t \in TurnIds : SubmitResponse(t, SessionEnv)
  \/ \E t \in TurnIds : RetryTimer(t)
  \/ \E t \in TurnIds : PollTick(t, SessionEnv)

Spec == Init /\ [][Next]_vars

\* One turn watched to its end: the interview is started once and the user
\* does nothing else.
NextTurn ==
  \/ (nTurns = 0 /\ StartInterview)
  \/ SubmitResponse(1, WholeEnv)
  \/ RetryTimer(1)
  \/ PollTick(1, WholeEnv)

SpecTurn == Init /\ [][NextTurn]_vars

\* The same, where every network call and every timer completes: a step that
\* waits for one is taken in the end.
SpecTurnFair ==
  /\ Init
  /\ [][NextTurn]_vars
  /\ WF_vars(SubmitResponse(1, WholeEnv))
  /\ WF_vars(RetryTimer(1))
  /\ WF_vars(PollTick(1, WholeEnv))

\* One turn watched to its end, after which the user types and submits again.
NextAgain ==
  \/ (nTurns = 0 /\ StartInterview)
  \/ SubmitResponse(1, WholeEnv)
  \/ RetryTimer(1)
  \/ PollTick(1, WholeEnv)
  \/ (turn[1].pc = "done" /\ ChangeInput)
  \/ (turn[1].pc = "done" /\ HandleSubmit)

SpecAgain == Init /\ [][NextAgain]_vars

\* --------------------------------------------------- the stream transport
\* what a producer may send: up to MaxEvents frames of any kind in any order
RECURSIVE SeqsUpTo(_, _)
SeqsUpTo(S, n) ==
  IF n = 0 THEN {<<>>}
  ELSE SeqsUpTo(S, n - 1) \cup
       {Append(q, x) : q \in {r \in SeqsUpTo(S, n - 1) : Len(r) = n - 1}, x \in S}

SentChoices == SeqsUpTo(InboundEvents \cup {KEEP_ALIVE}, MaxEvents)

InitDecoder ==
  /\ PageInit
  /\ \E evs \in SentChoices :
       stream = [NoStream EXCEPT !.sent = evs, !.rest = EncodeStream(evs)]

\* the read loop takes the next chunk, of any size
ReadChunk ==
  /\ ~stream.decoder.done
  /\ stream.rest # <<>>
  /\ \E n \in 1..Len(stream.rest) :
       stream' = [stream EXCEPT
                    !.rest = SubSeq(@, n + 1, Len(@)),
                    !.chunks = @ + 1,
                    !.decoder = Feed(@, SubSeq(stream.rest, 1, n))]
  /\ UNCHANGED <<isInterviewStarted, instance, messages, userInput, isLoading,
                 progress, questionCount, contextId, localStorage, turn, nTurns,
                 reloads, owner>>

\* the stream ends before a terminal event was seen
EndOfStream ==
  /\ ~stream.decoder.done
  /\ stream.rest = <<>>
  /\ stream' = [stream EXCEPT !.decoder.done = TRUE]
  /\ UNCHANGED <<isInterviewStarted, instance, messages, userInput, isLoading,
                 progress, questionCount, contextId, localStorage, turn, nTurns,
                 reloads, owner>>

NextDecoder == ReadChunk \/ EndOfStream

SpecDecoder == InitDecoder /\ [][NextDecoder]_vars

TypeOK ==
  /\ isInterviewStarted \in BOOLEAN
  /\ isLoading \in BOOLEAN
  /\ nTurns \in 0..MaxTurns
  /\ Len(owner) = Len(messages)
  /\ \A t \in TurnIds : turn[t].pc \in {"none", "submit", "poll", "delay", "done"}

\* ------------------------------------------------------------ properties
Mine(t) == {k \in 1..Len(messages) : owner[k] = t}
IsErrorText(txt) == txt # <<>> /\ txt[1] = "Error: "

\* C1: at most one turn of the mounted page is open at any time.
C1_AtMostOneOpenTurn ==
  Cardinality({t \in TurnIds : Open(t) /\ Live(t)}) <= 1

\* C2: while a turn of the mounted page is open, isLoading is true.
C2_OpenTurnIsLoading ==
  \A t \in TurnIds : Open(t) /\ Live(t) => isLoading

\* C3: a closed turn has exactly one agent message in the list, holding its
\* terminal text, at most one user message, and no placeholder.
C3_OneAgentMessagePerTurn ==
  \A t \in TurnIds :
    turn[t].pc = "done" /\ Live(t) =>
      /\ Cardinality({k \in Mine(t) : messages[k].sender = "ai"}) = 1
      /\ Cardinality({k \in Mine(t) : messages[k].sender = "user"}) <= 1
      /\ \A k \in Mine(t) :
           messages[k].sender = "ai" => messages[k].text = turn[t].finalText

\* C4 as stated: a turn issues at most 3 submit attempts.
C4_AtMostThreeAttempts ==
  \A t \in TurnIds : turn[t].attempts <= 3

\* C4 as amended: a turn issues at most RETRIES + 1 = 4 submit attempts, each
\* but the first after one more 1-second delay, and reports failure only after
\* the fourth.
C4_AttemptBudget ==
  \A t \in TurnIds :
    /\ turn[t].attempts <= RETRIES + 1
    /\ turn[t].delays <= RETRIES
    /\ turn[t].pc \in {"submit", "poll"} => turn[t].delays = turn[t].attempts - 1
    /\ turn[t].pc = "delay" => turn[t].delays = turn[t].attempts
    /\ turn[t].result = "error" =>
         turn[t].attempts = RETRIES + 1 /\ turn[t].delays = RETRIES

C4_Witness ==
  \E t \in TurnIds : turn[t].result = "error" /\ turn[t].attempts = 4

\* C5: when attempt k+1 of a turn succeeds, the turn is closed by that reply
\* after exactly k delays, and no attempt or delay follows the success.
C5_SuccessShortCircuits ==
  \A t \in TurnIds :
    turn[t].okAt # 0 =>
      /\ turn[t].pc = "done"
      /\ turn[t].result = "reply"
      /\ turn[t].attempts = turn[t].okAt
      /\ turn[t].delays = turn[t].okAt - 1
      /\ turn[t].errWrites = 0

C5_Witness ==
  \E t \in TurnIds :
    turn[t].pc = "done" /\ turn[t].okAt = 3 /\ turn[t].delays = 2

\* C6: a turn whose every attempt failed closes with one error text, written
\* over the last entry of the list and carrying the cause of the last attempt.
C6_ExhaustionWritesLastCause ==
  \A t \in TurnIds :
    turn[t].result = "error" =>
      /\ turn[t].pc = "done"
      /\ turn[t].okAt = 0
      /\ turn[t].errWrites = 1
      /\ turn[t].finalText = ErrorText(turn[t].error)
      /\ Live(t) =>
           /\ messages[Len(messages)] = AiMessage(ErrorText(turn[t].error))
           /\ Cardinality({k \in Mine(t) : IsErrorText(messages[k].text)}) = 1

C6_Witness ==
  \E t \in TurnIds :
    /\ turn[t].result = "error"
    /\ turn[t].error = E_TIMEOUT
    /\ messages[Len(messages)].text = ErrorText(E_TIMEOUT)

\* C7: once the localStorage slot holds a token, no step changes it.
C7_FirstTokenWins ==
  [][localStorage # NoToken => localStorage' = localStorage]_vars

\* C8: a submit request built while the localStorage slot holds a token
\* carries that token as context_id.
C8_RequestsCarryToken ==
  [][\A t \in TurnIds :
       turn'[t].attempts > turn[t].attempts /\ localStorage' # NoToken
         => turn'[t].reqCtx = localStorage']_vars

\* C9: a call of pollForResult whose polls all got an answer returns at the
\* first poll answered with a terminal state, with that record, and polls no
\* more.
C9_ReturnsAtFirstTerminal ==
  \A t \in TurnIds :
    turn[t].pollOut = "returned" /\ ~turn[t].sawFail =>
      /\ turn[t].pollRet.state \in terminalStates
      /\ turn[t].polls = turn[t].firstTerm
      /\ turn[t].polls <= MAX_POLLS
      /\ turn[t].result = "reply" => turn[t].finalText = ReplyTextOf(turn[t].pollRet)

C9_Witness ==
  \E t \in TurnIds :
    /\ turn[t].pollOut = "returned"
    /\ ~turn[t].sawFail
    /\ turn[t].polls = 4
    /\ turn[t].pollRet.state = "completed"

\* C10: pollForResult times out exactly when 360 polls have seen no terminal
\* state; it never polls a 361st time and never returns a non-terminal record.
C10_TimeoutAtCeiling ==
  \A t \in TurnIds :
    /\ turn[t].polls <= MAX_POLLS
    /\ turn[t].pollOut = "timeout" =>
         /\ turn[t].polls = MAX_POLLS
         /\ turn[t].firstTerm = 0
         /\ turn[t].error = E_TIMEOUT
    /\ turn[t].polls = MAX_POLLS /\ turn[t].firstTerm = 0 =>
         turn[t].pollOut = "timeout"
    /\ turn[t].pollOut = "running" => turn[t].firstTerm = 0
    /\ turn[t].pollOut = "returned" => turn[t].pollRet.state \in terminalStates

C10_Witness ==
  \E t \in TurnIds : turn[t].pollOut = "timeout" /\ turn[t].polls = 360

\* C11: a failing poll does not end pollForResult: the call is left only by a
\* terminal answer or at the ceiling, every poll has used one iteration, and a
\* call that met failing polls still returns a later terminal record.
C11_FailingPollSwallowed ==
  \A t \in TurnIds :
    /\ turn[t].pollOut = "running" <=> turn[t].pc = "poll"
    /\ turn[t].pc = "poll" => turn[t].i = turn[t].polls
    /\ turn[t].sawFail /\ turn[t].pollOut = "timeout" => turn[t].polls = MAX_POLLS
    /\ turn[t].sawFail /\ turn[t].pollOut = "returned" =>
         /\ turn[t].pollRet.state \in terminalStates
         /\ turn[t].polls <= MAX_POLLS
    /\ turn[t].error \in {<<>>, E_TIMEOUT, E_TYPE} \cup SubmitFailures

C11_Witness ==
  \E t \in TurnIds :
    /\ turn[t].sawFail
    /\ turn[t].pollOut = "returned"
    /\ turn[t].polls = 3
    /\ turn[t].result = "reply"
    /\ turn[t].attempts = 1

\* the polls of turn t so far, counted from below: 360 for each call of
\* pollForResult that timed out, and the polls of the call that runs
PollsAtLeast(t) ==
  MAX_POLLS * turn[t].timeouts
    + (IF turn[t].pollOut = "timeout" THEN 0 ELSE turn[t].polls)

\* C12: within one turn the polls never number more than 360, and a poll
\* timeout closes the turn with an error.
C12_CeilingBoundsTurn ==
  \A t \in TurnIds :
    /\ PollsAtLeast(t) <= MAX_POLLS
    /\ turn[t].timeouts > 0 => turn[t].result = "error"

\* turn t closes in this step
Closes(t) == turn[t].pc # "done" /\ turn'[t].pc = "done"

\* C13: the entry that holds the terminal text of a closed turn is not changed
\* and not removed by any later step, as long as the page stays mounted.
C13_ClosedReplyIsFinal ==
  [][\A t \in TurnIds :
       turn[t].pc = "done" /\ Live(t) /\ Live(t)' =>
         \A k \in Mine(t) :
           messages[k] = AiMessage(turn[t].finalText) =>
             k <= Len(messages') /\ messages'[k] = messages[k]]_vars

\* C14: the terminal update of a turn replaces a placeholder that this turn
\* appended.
C14_ReplacesOwnPlaceholder ==
  [][\A t \in TurnIds :
       Closes(t) /\ Live(t) =>
         /\ Len(messages) > 0
         /\ owner[Len(owner)] = t
         /\ messages[Len(messages)] = AiMessage(PLACEHOLDER)]_vars

\* C15: once a turn of the mounted page has closed and no turn is open,
\* isLoading is false and handleSubmit accepts every input that is not blank.
C15_GuardReleased ==
  \A t \in TurnIds :
    (turn[t].pc = "done" /\ Live(t) /\ ~\E u \in TurnIds : Open(u) /\ Live(u)) =>
      /\ ~isLoading
      /\ \A v \in InputChoices : Trim(v) # <<>> => SubmitAccepted(v, isLoading)

C15_Witness ==
  /\ turn[1].result = "error"
  /\ turn[1].pollOut = "timeout"
  /\ turn[2].pc = "submit"
  /\ turn[2].text = <<"hi">>
  /\ turn[2].inst = turn[1].inst

\* C16: every started turn closes in the end; the step that closes it writes
\* a reply or an error text over the last entry of the list, so the entry
\* written is no placeholder any more, and the call chain ends without an
\* error of its own.
C16_EveryTurnTerminates ==
  /\ \A t \in TurnIds : (turn[t].pc # "none") ~> (turn[t].pc = "done")
  /\ [](\A t \in TurnIds :
          turn[t].pc = "done" =>
            /\ turn[t].result \in {"reply", "error"}
            /\ turn[t].finalText \notin {<<>>, PLACEHOLDER}
            /\ turn[t].result = "error" => IsErrorText(turn[t].finalText))
  /\ [][\A t \in TurnIds :
          Closes(t) /\ Live(t) =>
            /\ Len(messages') = Len(messages)
            /\ messages'[Len(messages')] = AiMessage(turn'[t].finalText)]_vars

C16_Witness ==
  \E t \in TurnIds :
    turn[t].pc = "done" /\ turn[t].timeouts = RETRIES + 1 /\ turn[t].result = "error"

\* C17: progress is an integer between 0 and 100 and questionCount is not
\* negative, in every state.
C17_ProgressInRange ==
  /\ progress \in 0..100
  /\ questionCount \in Nat

\* C18: a reply whose first marker is 'Question N', N from 0 to 5, leaves
\* questionCount = N and progress = 20 * N.
C18_MarkerSetsProgress ==
  \A t \in TurnIds :
    turn[t].result = "reply" /\ Live(t) =>
      LET txt == turn[t].finalText
          shows(n) == questionCount = n /\ progress = 20 * n
      IN
      /\ txt = <<"Question", " ", "1", ":", " ", "sum">> => shows(1)
      /\ txt = <<"Question", " ", "3", ":", " ", "Question", " ", "4">> => shows(3)
      /\ txt = <<"Good", ".", " ", "question", " ", "3", " ", "Question", " ", "1">>
           => shows(3)
      /\ txt = <<"Question", " ", "0">> => shows(0)
      /\ txt = <<"Question", " ", "5", " ", "of", " ", "5">> => shows(5)
      /\ HasQuestion(txt) /\ QuestionNumber(txt) \in 0..5 =>
           shows(QuestionNumber(txt))

C18_Witness ==
  \E t \in TurnIds :
    /\ turn[t].result = "reply"
    /\ turn[t].finalText = <<"Question", " ", "3", ":", " ", "Question", " ", "4">>
    /\ questionCount = 3
    /\ progress = 60

\* C19: a step of a turn that does not close it with a reply carrying a marker
\* (an attempt, a poll, a delay, a reply without marker, the final error)
\* leaves questionCount and progress as they are.
C19_NoMarkerNoChange ==
  [][\A t \in TurnIds :
       /\ Live(t) /\ Live(t)'
       /\ turn'[t] # turn[t]
       /\ ~(turn'[t].result = "reply" /\ HasQuestion(turn'[t].finalText))
       => questionCount' = questionCount /\ progress' = progress]_vars

C19_Witness ==
  /\ turn[1].okAt = 1
  /\ turn[1].finalText =
       <<"Good", ".", " ", "question", " ", "3", " ", "Question", " ", "1">>
  /\ turn[2].result = "reply"
  /\ turn[2].finalText = <<"Thanks">>
  /\ Live(1) /\ Live(2)
  /\ questionCount = 3
  /\ progress = 60

\* C20: when pollForResult returns a failed, canceled or rejected task, the
\* turn is closed by that attempt with one text written and nothing is
\* submitted again.
C20_FailedTaskClosesTurn ==
  \A t \in TurnIds :
    (/\ turn[t].pollOut = "returned"
     /\ turn[t].pollRet.state \in {"failed", "canceled", "rejected"}) =>
      /\ turn[t].pc = "done"
      /\ turn[t].result = "reply"
      /\ turn[t].okAt = turn[t].attempts
      /\ turn[t].errWrites = 0

\* the first turn went the plain way: one attempt, polls answered submitted or
\* working and then completed with 'Question 1: sum'
FirstTurnDone ==
  /\ turn[1].pc = "done"
  /\ turn[1].okAt = 1
  /\ ~turn[1].sawFail
  /\ turn[1].pollRet.state = "completed"
  /\ turn[1].finalText = <<"Question", " ", "1", ":", " ", "sum">>

\* C21: from an empty store the start request carries no token; the token
\* of its answer is stored; after submitted, working, completed with
\* 'Question 1' the list holds that text as its only message and the progress
\* is 1 and 20; the token stays as stored and the next user turn's request
\* carries it.
C21_FirstTurnEndToEnd ==
  /\ [](turn[1].pc = "submit" /\ turn[1].attempts = 1 =>
          turn[1].reqCtx = NoToken /\ localStorage = NoToken)
  /\ [](turn[1].pc = "poll" /\ turn[1].attempts = 1 /\ turn[1].polls = 0 =>
          localStorage = turn[1].initialCtx /\ contextId = turn[1].initialCtx)
  /\ [][turn[1].attempts = 1 /\ turn[1].pc \in {"poll", "done"}
          /\ turn'[1].attempts = 1
          => localStorage' = localStorage /\ contextId' = contextId]_vars
  /\ [](FirstTurnDone /\ turn[2].pc = "none" =>
          /\ messages = <<AiMessage(turn[1].finalText)>>
          /\ questionCount = 1
          /\ progress = 20)
  /\ [](FirstTurnDone /\ turn[2].pc # "none" =>
          /\ turn[2].reqCtx = localStorage
          /\ turn[2].reqCtx = contextId)

C21_Witness ==
  /\ FirstTurnDone
  /\ turn[1].polls = 3
  /\ localStorage = "ctxA"
  /\ turn[2].pc = "submit"
  /\ turn[2].text = <<"hi">>
  /\ turn[2].reqCtx = "ctxA"
  /\ progress = 20

\* the mounted page stays the same over this step
SamePage == isInterviewStarted /\ isInterviewStarted' /\ instance' = instance

\* C22: while the page stays mounted, a step leaves every message but the last
\* as it is and where it is, and the list does not get shorter.
C22_AppendOnlyButLast ==
  [][SamePage =>
       /\ Len(messages') >= Len(messages)
       /\ \A k \in 1..(Len(messages) - 1) : messages'[k] = messages[k]]_vars

C22_Witness ==
  /\ Len(messages) = 3
  /\ messages[1] = AiMessage(<<"Question", " ", "1", ":", " ", "sum">>)
  /\ messages[2] = UserMessage(<<"hi">>)
  /\ messages[3] = AiMessage(<<"Thanks">>)

\* C24: an attempt polls only after its message.send returned a task id, an
\* attempt whose submit failed has not polled, and every poll asks for the
\* task id of the attempt it belongs to.
C24_PollsAfterAcceptedSubmit ==
  \A t \in TurnIds :
    /\ turn[t].pc = "submit" => turn[t].polls = 0 /\ turn[t].taskId = 0
    /\ turn[t].pollOut = "none" => turn[t].polls = 0 /\ turn[t].polled = 0
    /\ turn[t].error \in SubmitFailures => turn[t].polls = 0
    /\ turn[t].pc = "poll" =>
         /\ turn[t].taskId = FreshTaskId(t, turn[t].attempts)
         /\ turn[t].polls > 0 => turn[t].polled = turn[t].taskId
    /\ turn[t].pc = "delay" /\ turn[t].polls > 0 =>
         turn[t].polled = FreshTaskId(t, turn[t].attempts)

C24_Witness ==
  \E t \in TurnIds :
    /\ turn[t].pc = "poll"
    /\ turn[t].attempts = 2
    /\ turn[t].polls = 2
    /\ turn[t].polled = FreshTaskId(t, 2)

\* C25: within one turn at most one message.send returns a task id.
C25_DeliveredAtMostOnce ==
  [][\A t \in TurnIds :
       turn[t].pc = "submit" /\ turn'[t].pc = "poll" => ~turn[t].delivered]_vars

\* C26: the last entry of the list, the one a terminal update replaces, is an
\* agent message, and while the page stays mounted no step changes or removes
\* a user message.
C26_UserMessagesKept ==
  /\ [](Len(messages) > 0 => messages[Len(messages)].sender = "ai")
  /\ [][SamePage =>
          \A k \in 1..Len(messages) :
            messages[k].sender = "user" =>
              k <= Len(messages') /\ messages'[k] = messages[k]]_vars

C26_Witness ==
  /\ turn[1].pc = "done" /\ turn[1].attempts = 2
  /\ turn[2].pc = "done"
  /\ Live(1) /\ Live(2)
  /\ \E k \in 1..Len(messages) : messages[k] = UserMessage(<<"hi">>)

\* C27 as stated: while the page stays mounted, questionCount and progress
\* never go down.
C27_ProgressMonotonic ==
  [][SamePage => questionCount' >= questionCount /\ progress' >= progress]_vars

\* C27 as amended: questionCount and progress change only in the step that
\* closes a turn with a reply carrying a marker 'Question N', and then become
\* N and 20 * N, whether that is more or less than before.
C27_ProgressFollowsMarker ==
  [][SamePage =>
       \/ questionCount' = questionCount /\ progress' = progress
       \/ \E t \in TurnIds :
            /\ Closes(t) /\ Live(t)
            /\ turn'[t].result = "reply"
            /\ HasQuestion(turn'[t].finalText)
            /\ questionCount' = QuestionNumber(turn'[t].finalText)
            /\ progress' = STEP_WEIGHT * questionCount']_vars

C27_Witness ==
  /\ turn[1].okAt = 1
  /\ turn[1].finalText =
       <<"Good", ".", " ", "question", " ", "3", " ", "Question", " ", "1">>
  /\ turn[2].result = "reply"
  /\ turn[2].finalText = <<"Question", " ", "1", ":", " ", "sum">>
  /\ Live(1) /\ Live(2)
  /\ questionCount = 1
  /\ progress = 20

\* C28: the step in which pollForResult returns a task that is failed,
\* canceled or rejected leaves questionCount and progress as they are.
C28_OnlyCompletedSetsProgress ==
  [][\A t \in TurnIds :
       /\ turn[t].pollOut # "returned"
       /\ turn'[t].pollOut = "returned"
       /\ turn'[t].pollRet.state # "completed"
       => questionCount' = questionCount /\ progress' = progress]_vars

\* the turn started by the mount effect of its page: the first of its instance
IsMountTurn(t) == \A u \in 1..(t - 1) : turn[u].inst # turn[t].inst

UserMessagesOf(t) == {k \in Mine(t) : messages[k].sender = "user"}

\* C29: a turn started by handleSubmit has exactly one user message in the
\* list, and a turn started by the mount effect has none.
C29_OneUserMessagePerSubmit ==
  \A t \in TurnIds :
    turn[t].pc # "none" /\ Live(t) =>
      Cardinality(UserMessagesOf(t)) = IF IsMountTurn(t) THEN 0 ELSE 1

\* C30: a turn of a page that is no longer mounted issues no submit and no
\* poll request, and turns of two pages are never open together.
C30_EndStopsActivity ==
  /\ [][\A t \in TurnIds :
          turn[t].pc # "none" /\ ~Live(t) =>
            /\ turn'[t].attempts <= turn[t].attempts
            /\ turn'[t].polls <= turn[t].polls]_vars
  /\ [](\A t, u \in TurnIds :
          Open(t) /\ Open(u) => turn[t].inst = turn[u].inst)

\* the events of a list of sent frames that a reader is to see: the events in
\* order, without the frames that are no events, up to the first terminal one
RECURSIVE ExpectedEvents(_)
ExpectedEvents(evs) ==
  IF evs = <<>> THEN <<>>
  ELSE IF Head(evs) \notin InboundEvents THEN ExpectedEvents(Tail(evs))
  ELSE IF IsTerminalEvent(Head(evs)) THEN <<Head(evs)>>
  ELSE <<Head(evs)>> \o ExpectedEvents(Tail(evs))

\* C23: however the stream is cut into chunks, the decoder ends with the events
\* it yields when the whole stream comes as one chunk: the events sent, each
\* once and in order; and the remainder never holds a whole delimiter.
C23_ChunkBoundaryInvariance ==
  /\ stream.decoder.done =>
       /\ stream.decoder.events =
            Feed(NewDecoder, EncodeStream(stream.sent)).events
       /\ stream.decoder.events = ExpectedEvents(stream.sent)
  /\ CompleteFrames(stream.decoder.buffer) = <<>>

C23_Witness ==
  /\ stream.decoder.done
  /\ stream.chunks = 4
  /\ Len(stream.decoder.events) = 3
  /\ stream.decoder.events[3].kind = "final"

====
